---- MODULE Spec2Model ----
(***************************************************************************)
(* Users / Tasks REST back end (Express + Mongoose).  The two collections  *)
(* are stored independently; the route handlers keep Task.assignedUser /   *)
(* Task.assignedUserName and User.pendingTasks in step by issuing several  *)
(* single-document (or single-collection) store operations in sequence.    *)
(*                                                                         *)
(* Spec        : every handler runs to completion before the next one      *)
(*               starts.                                                   *)
(* SpecReassign: after a set-up of users and tasks, one PUT /tasks/:id and *)
(*               one PUT /users/:id run one store operation at a time, in  *)
(*               any interleaving.                                         *)
(* SpecEmail   : POST /users and PUT /users/:id, two at a time, with every *)
(*               spelling of the e-mail addresses.                         *)
(* SpecOrder   : the five synchronising requests, one at a time, one store *)
(*               operation per step.                                       *)
(* SpecNoList  : a task request against a PUT /users/:id without a         *)
(*               pendingTasks list.                                        *)
(* SpecPair    : any two PUT / DELETE requests started together.           *)
(* SpecDeleteRace: POST /tasks or PUT /tasks/:id against DELETE /users/:id *)
(***************************************************************************)
EXTENDS Integers, Sequences, FiniteSets, TLC

\* ---------------------------------------------------------------- bounds
MaxUsers == 2       \* user documents the store ever creates
MaxTasks == 2       \* task documents the store ever creates
MaxLen   == 2       \* longest pendingTasks array a request body carries

\* ------------------------------------------------------------ value sets
UserIdOf(i) == "u" \o ToString(i)
TaskIdOf(i) == "t" \o ToString(i)

UserNames == {"Alice", "Bob"}

\* e-mail addresses as character sequences, so that normalisation computes
RawEmails == { <<"a">>, <<" ", "A">>, <<"B", " ">>, <<"c">> }

\* the name the i-th user registers under in a set-up
NameOf(i) == <<"Alice", "Bob">>[((i - 1) % 2) + 1]

\* the address the i-th user registers under
AddressOf(i) == << <<" ", "A">>, <<"B", " ">>, <<"c">>, <<"a">> >>[((i - 1) % 3) + 1]

VARIABLES
  users,    \* User collection : _id -> [name, email, pendingTasks]
  tasks,    \* Task collection : _id -> [completed, assignedUser, assignedUserName]
  nUsers,   \* number of user ids the store has handed out
  nTasks,   \* number of task ids the store has handed out
  reqs      \* requests in flight : slot -> the handler's locals and position

vars == <<users, tasks, nUsers, nTasks, reqs>>

\* ids the store has handed out so far (documents that exist or were deleted)
IssuedUserIds == { UserIdOf(i) : i \in 1..nUsers }
IssuedTaskIds == { TaskIdOf(i) : i \in 1..nTasks }

\* --------------------------------------------------------------- helpers
Contains(seq, x) == \E i \in 1..Len(seq) : seq[i] = x
Count(seq, x)    == Cardinality({ i \in 1..Len(seq) : seq[i] = x })
Range(seq)       == { seq[i] : i \in 1..Len(seq) }

\* String.prototype.toLowerCase on one character
LowerChar(c) == CASE c = "A" -> "a" [] c = "B" -> "b" [] OTHER -> c
ToLowerCase(s) == [i \in 1..Len(s) |-> LowerChar(s[i])]

\* String.prototype.trim
RECURSIVE TrimLeft(_)
TrimLeft(s) == IF s # <<>> /\ Head(s) = " " THEN TrimLeft(Tail(s)) ELSE s
RECURSIVE TrimRight(_)
TrimRight(s) == IF s # <<>> /\ s[Len(s)] = " "
                THEN TrimRight(SubSeq(s, 1, Len(s) - 1)) ELSE s
Trim(s) == TrimRight(TrimLeft(s))

\* email.toLowerCase().trim()
NormalizeEmail(email) == Trim(ToLowerCase(email))

\* ------------------------------------------------------ store operations
\* User.updateOne({_id, pendingTasks: {$ne: taskId}}, {$push: {pendingTasks: taskId}})
PushPending(us, userId, taskId) ==
  IF userId \in DOMAIN us /\ ~Contains(us[userId].pendingTasks, taskId)
  THEN [us EXCEPT ![userId].pendingTasks = Append(@, taskId)]
  ELSE us

\* User.updateOne({_id}, {$pull: {pendingTasks: taskId}})
PullPending(us, userId, taskId) ==
  IF userId \in DOMAIN us
  THEN [us EXCEPT ![userId].pendingTasks = SelectSeq(@, LAMBDA x : x # taskId)]
  ELSE us

addPendingToUser(us, userId, taskId) ==
  IF userId = "" \/ taskId = "" THEN us ELSE PushPending(us, userId, taskId)

removePendingFromUser(us, userId, taskId) ==
  IF userId = "" \/ taskId = "" THEN us ELSE PullPending(us, userId, taskId)

resolveUserName(us, userId) ==
  IF userId = "" THEN "unassigned"
  ELSE IF userId \in DOMAIN us THEN us[userId].name ELSE "unassigned"

\* mutant: the unassigning updateMany without its assignedUser filter
UnassignRemoved_NoGuard(ts, ids, userId) ==
  [t \in DOMAIN ts |->
     IF t \in ids
     THEN [ts[t] EXCEPT !.assignedUser = "", !.assignedUserName = "unassigned"]
     ELSE ts[t]]

\* Task.updateMany({_id: {$in: ids}, assignedUser: userId},
\*                 {$set: {assignedUser: '', assignedUserName: 'unassigned'}})
UnassignRemoved(ts, ids, userId) ==
  [t \in DOMAIN ts |->
     IF t \in ids /\ ts[t].assignedUser = userId
     THEN [ts[t] EXCEPT !.assignedUser = "", !.assignedUserName = "unassigned"]
     ELSE ts[t]]

\* Task.updateMany({_id: {$in: ids}}, {$set: {assignedUser, assignedUserName}})
AssignAdded(ts, ids, userId, uname) ==
  [t \in DOMAIN ts |->
     IF t \in ids
     THEN [ts[t] EXCEPT !.assignedUser = userId, !.assignedUserName = uname]
     ELSE ts[t]]

\* mutant: the clean-up of DELETE /users/:id with its filter left empty
UnassignAllOf_NoFilter(ts, userId) ==
  [t \in DOMAIN ts |->
     [ts[t] EXCEPT !.assignedUser = "", !.assignedUserName = "unassigned"]]

\* mutant: the clean-up of DELETE /users/:id passing over completed tasks
UnassignAllOf_SkipsCompleted(ts, userId) ==
  [t \in DOMAIN ts |->
     IF ts[t].assignedUser = userId /\ ~ts[t].completed
     THEN [ts[t] EXCEPT !.assignedUser = "", !.assignedUserName = "unassigned"]
     ELSE ts[t]]

\* Task.updateMany({assignedUser: userId}, {$set: {assignedUser: '', ...}})
UnassignAllOf(ts, userId) ==
  [t \in DOMAIN ts |->
     IF ts[t].assignedUser = userId
     THEN [ts[t] EXCEPT !.assignedUser = "", !.assignedUserName = "unassigned"]
     ELSE ts[t]]

\* the unique index on User.email: some other document holds this address
EmailTaken(us, email, exceptId) ==
  \E u \in DOMAIN us : u # exceptId /\ us[u].email = email

\* a function with one key removed / added (collection delete / insert)
Without(f, k) == [x \in DOMAIN f \ {k} |-> f[x]]
With(f, k, v) == [x \in DOMAIN f \cup {k} |-> IF x = k THEN v ELSE f[x]]

\* --------------------------------------------------------- request bodies
\* req.body of /tasks.  "fields" are the keys the body carries; name and
\* deadline are carried with a truthy value or not at all.  A body that
\* fails validation is answered 400 whatever else it carries.
TaskFields == {"name", "deadline", "assignedUser", "completed"}
TaskBodies ==
  { [fields |-> {"name", "deadline"} \cup au.f \cup co.f,
     assignedUser |-> au.v, completed |-> co.v] :
      au \in {[f |-> {}, v |-> ""]} \cup
             {[f |-> {"assignedUser"}, v |-> u] : u \in {""} \cup IssuedUserIds},
      co \in {[f |-> {}, v |-> FALSE]} \cup
             {[f |-> {"completed"}, v |-> c] : c \in BOOLEAN} }
  \cup { [fields |-> f, assignedUser |-> "", completed |-> FALSE] :
           f \in {{}, {"name"}, {"deadline"}} }

\* arrays of issued task ids, repeats allowed, of length 0..MaxLen
PendingLists == UNION { [1..n -> IssuedTaskIds] : n \in 0..MaxLen }

\* req.body of /users
UserFields == {"name", "email", "pendingTasks"}
UserBodies ==
  { [fields |-> {"name", "email"} \cup pt.f, name |-> n, email |-> e,
     pendingTasks |-> pt.v] :
      n \in UserNames, e \in RawEmails,
      pt \in {[f |-> {}, v |-> <<>>]} \cup
             {[f |-> {"pendingTasks"}, v |-> l] : l \in PendingLists} }
  \cup { [fields |-> f, name |-> "", email |-> <<>>, pendingTasks |-> <<>>] :
           f \in {{}} }

\* POST /users bodies: the requests modelled carry name and e-mail and no
\* pendingTasks, so that every pendingTasks entry stems from one of the
\* five synchronising requests
CreateUserBodies == { b \in UserBodies : "pendingTasks" \notin b.fields }

\* ------------------------------------------------ handlers, run to the end
\* Each handler maps the two collections to the collections after the
\* request and the response status.
Reply(us, ts, code) == [users |-> us, tasks |-> ts, status |-> code]

\* POST /users
PostUser(us, ts, newId, body) ==
  IF ~({"name", "email"} \subseteq body.fields) THEN Reply(us, ts, 400)
  ELSE LET email == NormalizeEmail(body.email) IN
       IF EmailTaken(us, email, newId) THEN Reply(us, ts, 400)
       ELSE Reply(With(us, newId, [name |-> body.name, email |-> email,
                                   pendingTasks |-> <<>>]), ts, 201)

\* the document PUT /users/:id writes
UpdatedUser(prev, body) ==
  [name |-> body.name, email |-> NormalizeEmail(body.email),
   pendingTasks |-> IF "pendingTasks" \in body.fields
                    THEN body.pendingTasks ELSE prev.pendingTasks]

\* mutant: the removed side filtered with the test inverted
RemovedIds_Inverted(prevSet, nextSet) == { id \in prevSet : id \in nextSet }

\* the two sides of the pendingTasks diff
RemovedIds(prevSet, nextSet) == { id \in prevSet : id \notin nextSet }
AddedIds(prevSet, nextSet)   == { id \in nextSet : id \notin prevSet }

\* the two Task.updateMany calls of PUT /users/:id, in the code's order
SyncAfterUserUpdate(ts, id, prev, body, updated) ==
  LET prevSet == Range(prev.pendingTasks)
      nextSet == Range(body.pendingTasks)
      ts1     == UnassignRemoved(ts, RemovedIds(prevSet, nextSet), id)
  IN AssignAdded(ts1, AddedIds(prevSet, nextSet), id, updated.name)

\* PUT /users/:id
PutUser(us, ts, id, body) ==
  IF ~({"name", "email"} \subseteq body.fields) THEN Reply(us, ts, 400)
  ELSE IF id \notin DOMAIN us THEN Reply(us, ts, 404)
  ELSE
    LET prev    == us[id]
        updated == UpdatedUser(prev, body)
    IN IF EmailTaken(us, updated.email, id) THEN Reply(us, ts, 500)
       ELSE IF "pendingTasks" \in body.fields
       THEN Reply([us EXCEPT ![id] = updated],
                  SyncAfterUserUpdate(ts, id, prev, body, updated), 200)
       ELSE Reply([us EXCEPT ![id] = updated], ts, 200)

\* DELETE /users/:id
DeleteUserDoc(us, ts, id) ==
  IF id \notin DOMAIN us THEN Reply(us, ts, 404)
  ELSE Reply(Without(us, id), UnassignAllOf(ts, id), 200)

\* new Task({...req.body, assignedUserName}) with the schema defaults
NewTask(body, assignedUserName) ==
  [completed |-> body.completed, assignedUser |-> body.assignedUser,
   assignedUserName |-> assignedUserName]

\* mutant: POST /tasks answering 404 when assignedUser names no user
PostTask_RejectsUnknownUser(us, ts, newId, body) ==
  IF ~({"name", "deadline"} \subseteq body.fields) THEN Reply(us, ts, 400)
  ELSE
    LET assignedUser == body.assignedUser
        completed    == body.completed
        task         == NewTask(body, resolveUserName(us, assignedUser))
    IN IF assignedUser # "" /\ assignedUser \notin DOMAIN us
       THEN Reply(us, ts, 404)
       ELSE IF assignedUser # "" /\ ~completed
       THEN Reply(addPendingToUser(us, assignedUser, newId),
                  With(ts, newId, task), 201)
       ELSE Reply(us, With(ts, newId, task), 201)

\* mutant: POST /tasks adding to pendingTasks whether completed or not
PostTask_IgnoresCompleted(us, ts, newId, body) ==
  IF ~({"name", "deadline"} \subseteq body.fields) THEN Reply(us, ts, 400)
  ELSE
    LET assignedUser == body.assignedUser
        task         == NewTask(body, resolveUserName(us, assignedUser))
    IN IF assignedUser # ""
       THEN Reply(addPendingToUser(us, assignedUser, newId),
                  With(ts, newId, task), 201)
       ELSE Reply(us, With(ts, newId, task), 201)

\* POST /tasks
PostTask(us, ts, newId, body) ==
  IF ~({"name", "deadline"} \subseteq body.fields) THEN Reply(us, ts, 400)
  ELSE
    LET assignedUser == body.assignedUser
        completed    == body.completed
        task         == NewTask(body, resolveUserName(us, assignedUser))
    IN IF assignedUser # "" /\ ~completed
       THEN Reply(addPendingToUser(us, assignedUser, newId),
                  With(ts, newId, task), 201)
       ELSE Reply(us, With(ts, newId, task), 201)

\* the $set that findByIdAndUpdate builds from {...req.body, assignedUserName}:
\* a key the body does not carry keeps its stored value
ApplyTaskUpdate(prev, body, newAssignedUserName) ==
  [completed        |-> IF "completed" \in body.fields
                        THEN body.completed ELSE prev.completed,
   assignedUser     |-> IF "assignedUser" \in body.fields
                        THEN body.assignedUser ELSE prev.assignedUser,
   assignedUserName |-> newAssignedUserName]

\* mutant: the reconciliation without its third step
SyncAfterTaskUpdate_NoCompletionPull(us, id, prevUser, nextUser, completed) ==
  LET us1 == IF prevUser # "" /\ prevUser # nextUser
             THEN removePendingFromUser(us, prevUser, id) ELSE us
  IN IF nextUser # "" /\ ~completed
     THEN addPendingToUser(us1, nextUser, id) ELSE us1

\* the three pendingTasks reconciliation steps of PUT /tasks/:id
SyncAfterTaskUpdate(us, id, prevUser, nextUser, completed) ==
  LET us1 == IF prevUser # "" /\ prevUser # nextUser
             THEN removePendingFromUser(us, prevUser, id) ELSE us
      us2 == IF nextUser # "" /\ ~completed
             THEN addPendingToUser(us1, nextUser, id) ELSE us1
  IN IF completed /\ nextUser # ""
     THEN removePendingFromUser(us2, nextUser, id) ELSE us2

\* PUT /tasks/:id
PutTask(us, ts, id, body) ==
  IF ~({"name", "deadline"} \subseteq body.fields) THEN Reply(us, ts, 400)
  ELSE IF id \notin DOMAIN ts THEN Reply(us, ts, 404)
  ELSE
    LET prev            == ts[id]
        newAssignedUser == body.assignedUser
        updated  == ApplyTaskUpdate(prev, body,
                                    resolveUserName(us, newAssignedUser))
        prevUser == prev.assignedUser
        nextUser == updated.assignedUser
    IN Reply(SyncAfterTaskUpdate(us, id, prevUser, nextUser, updated.completed),
             [ts EXCEPT ![id] = updated], 200)

\* DELETE /tasks/:id
DeleteTaskDoc(us, ts, id) ==
  IF id \notin DOMAIN ts THEN Reply(us, ts, 404)
  ELSE LET task == ts[id] IN
       Reply(IF task.assignedUser # ""
             THEN removePendingFromUser(us, task.assignedUser, id) ELSE us,
             Without(ts, id), 200)

\* ------------------------------------------------------------ the machine
\* the two handlers that may be in flight together
Slots == {1, 2}
Idle  == [op |-> "idle"]
Quiet == \A s \in Slots : reqs[s] = Idle

Init ==
  /\ users = <<>>
  /\ tasks = <<>>
  /\ nUsers = 0
  /\ nTasks = 0
  /\ reqs = [s \in Slots |-> Idle]

\* the collections after a request that ran to its reply
Done(r) ==
  /\ users' = r.users
  /\ tasks' = r.tasks

\* In Spec every user registers under an address of its own and a
\* PUT /users/:id re-sends the address the user is stored under, in any
\* spelling; requests that compete for an address are left to the
\* specification of the e-mail rules.
KeepsEmail(id, body) ==
  (id \in DOMAIN users /\ body.email # <<>>)
     => NormalizeEmail(body.email) = users[id].email

CreateUserFrom(bodies) ==
  /\ Quiet
  /\ nUsers < MaxUsers
  /\ \E body \in bodies :
       LET newId == UserIdOf(nUsers + 1)
           r     == PostUser(users, tasks, newId, body) IN
       /\ Done(r)
       /\ nUsers' = IF r.status = 201 THEN nUsers + 1 ELSE nUsers
       /\ UNCHANGED <<nTasks, reqs>>

CreateTaskFrom(bodies) ==
  /\ Quiet
  /\ nTasks < MaxTasks
  /\ \E body \in bodies :
       LET newId == TaskIdOf(nTasks + 1)
           r     == PostTask(users, tasks, newId, body) IN
       /\ Done(r)
       /\ nTasks' = IF r.status = 201 THEN nTasks + 1 ELSE nTasks
       /\ UNCHANGED <<nUsers, reqs>>

CreateUser ==
  CreateUserFrom({ b \in CreateUserBodies :
                     b.email \in {<<>>, AddressOf(nUsers + 1)} })

UpdateUser ==
  /\ Quiet
  /\ \E id \in IssuedUserIds :
       \E body \in { b \in UserBodies : KeepsEmail(id, b) } :
         /\ Done(PutUser(users, tasks, id, body))
         /\ UNCHANGED <<nUsers, nTasks, reqs>>

DeleteUser ==
  /\ Quiet
  /\ \E id \in IssuedUserIds :
       /\ Done(DeleteUserDoc(users, tasks, id))
       /\ UNCHANGED <<nUsers, nTasks, reqs>>

CreateTask == CreateTaskFrom(TaskBodies)

UpdateTask ==
  /\ Quiet
  /\ \E id \in IssuedTaskIds, body \in TaskBodies :
       /\ Done(PutTask(users, tasks, id, body))
       /\ UNCHANGED <<nUsers, nTasks, reqs>>

DeleteTask ==
  /\ Quiet
  /\ \E id \in IssuedTaskIds :
       /\ Done(DeleteTaskDoc(users, tasks, id))
       /\ UNCHANGED <<nUsers, nTasks, reqs>>

Next ==
  \/ CreateUser
  \/ UpdateUser
  \/ DeleteUser
  \/ CreateTask
  \/ UpdateTask
  \/ DeleteTask

Spec == Init /\ [][Next]_vars

\* ------------------------------------------- handlers, one await at a time
\* A request in flight keeps the handler's locals: the route parameter id,
\* the body, the document read first (prev), the resolved name, the
\* document findByIdAndUpdate returned (updated), and where it stands (pc).
\* Validation runs before the first await and touches no collection; the
\* requests below carry bodies that pass it.
ValidTaskBodies == { b \in TaskBodies : {"name", "deadline"} \subseteq b.fields }
ListUserBodies  == { b \in UserBodies : "pendingTasks" \in b.fields }

Request(op, id, body) ==
  [op |-> op, pc |-> "findById", id |-> id, body |-> body, prev |-> <<>>,
   name |-> "", updated |-> <<>>, status |-> 0]

Finish(r, code) == [r EXCEPT !.pc = "done", !.status = code]

\* ---- PUT /tasks/:id
\* the reconciliation steps that are due, in the code's order
TaskSyncOrder == <<"removePrev", "addNext", "removeCompleted">>
TaskSyncDue(r, k) ==
  LET prevUser == r.prev.assignedUser
      nextUser == r.updated.assignedUser
  IN CASE k = 1 -> prevUser # "" /\ prevUser # nextUser
       [] k = 2 -> nextUser # "" /\ ~r.updated.completed
       [] k = 3 -> r.updated.completed /\ nextUser # ""
\* the first step after step k that is due, or the reply
TaskSyncAfter(r, k) ==
  LET due == { j \in (k + 1)..3 : TaskSyncDue(r, j) } IN
  IF due = {} THEN Finish(r, 200)
  ELSE [r EXCEPT !.pc = TaskSyncOrder[CHOOSE j \in due : \A i \in due : j <= i]]

BeginUpdateTask(s, bodies) ==
  /\ reqs[s] = Idle
  /\ \E id \in IssuedTaskIds, body \in bodies :
       reqs' = [reqs EXCEPT ![s] = Request("UpdateTask", id, body)]
  /\ UNCHANGED <<users, tasks, nUsers, nTasks>>

\* const prev = await Task.findById(req.params.id)
TaskFindById(s) ==
  LET r == reqs[s] IN
  /\ r.op = "UpdateTask" /\ r.pc = "findById"
  /\ reqs' = [reqs EXCEPT ![s] =
                IF r.id \in DOMAIN tasks
                THEN [r EXCEPT !.prev = tasks[r.id], !.pc = "resolveUserName"]
                ELSE Finish(r, 404)]
  /\ UNCHANGED <<users, tasks, nUsers, nTasks>>

\* const newAssignedUserName = await resolveUserName(newAssignedUser)
TaskResolveName(s) ==
  LET r == reqs[s] IN
  /\ r.op = "UpdateTask" /\ r.pc = "resolveUserName"
  /\ reqs' = [reqs EXCEPT ![s] =
                [r EXCEPT !.name = resolveUserName(users, r.body.assignedUser),
                          !.pc = "findByIdAndUpdate"]]
  /\ UNCHANGED <<users, tasks, nUsers, nTasks>>

\* const updated = await Task.findByIdAndUpdate(...); a task deleted in the
\* meantime gives null, and reading updated.assignedUser throws: reply 500
TaskFindByIdAndUpdate(s) ==
  LET r == reqs[s] IN
  /\ r.op = "UpdateTask" /\ r.pc = "findByIdAndUpdate"
  /\ IF r.id \in DOMAIN tasks
     THEN LET updated == ApplyTaskUpdate(tasks[r.id], r.body, r.name) IN
          /\ tasks' = [tasks EXCEPT ![r.id] = updated]
          /\ reqs' = [reqs EXCEPT ![s] =
                        TaskSyncAfter([r EXCEPT !.updated = updated], 0)]
     ELSE /\ tasks' = tasks
          /\ reqs' = [reqs EXCEPT ![s] = Finish(r, 500)]
  /\ UNCHANGED <<users, nUsers, nTasks>>

\* if (prevUser && prevUser !== nextUser) await removePendingFromUser(prevUser, ...)
TaskRemovePrev(s) ==
  LET r == reqs[s] IN
  /\ r.op = "UpdateTask" /\ r.pc = "removePrev"
  /\ users' = removePendingFromUser(users, r.prev.assignedUser, r.id)
  /\ reqs' = [reqs EXCEPT ![s] = TaskSyncAfter(r, 1)]
  /\ UNCHANGED <<tasks, nUsers, nTasks>>

\* if (nextUser && !updated.completed) await addPendingToUser(nextUser, ...)
TaskAddNext(s) ==
  LET r == reqs[s] IN
  /\ r.op = "UpdateTask" /\ r.pc = "addNext"
  /\ users' = addPendingToUser(users, r.updated.assignedUser, r.id)
  /\ reqs' = [reqs EXCEPT ![s] = TaskSyncAfter(r, 2)]
  /\ UNCHANGED <<tasks, nUsers, nTasks>>

\* if (updated.completed && nextUser) await removePendingFromUser(nextUser, ...)
TaskRemoveCompleted(s) ==
  LET r == reqs[s] IN
  /\ r.op = "UpdateTask" /\ r.pc = "removeCompleted"
  /\ users' = removePendingFromUser(users, r.updated.assignedUser, r.id)
  /\ reqs' = [reqs EXCEPT ![s] = TaskSyncAfter(r, 3)]
  /\ UNCHANGED <<tasks, nUsers, nTasks>>

\* ---- PUT /users/:id
BeginUpdateUser(s, id, bodies) ==
  /\ reqs[s] = Idle
  /\ \E body \in bodies :
       reqs' = [reqs EXCEPT ![s] = Request("UpdateUser", id, body)]
  /\ UNCHANGED <<users, tasks, nUsers, nTasks>>

\* const prev = await User.findById(req.params.id)
UserFindById(s) ==
  LET r == reqs[s] IN
  /\ r.op = "UpdateUser" /\ r.pc = "findById"
  /\ reqs' = [reqs EXCEPT ![s] =
                IF r.id \in DOMAIN users
                THEN [r EXCEPT !.prev = users[r.id], !.pc = "findByIdAndUpdate"]
                ELSE Finish(r, 404)]
  /\ UNCHANGED <<users, tasks, nUsers, nTasks>>

\* const updated = await User.findByIdAndUpdate(...): the unique index may
\* refuse the address (500), the user may be gone (404)
UserFindByIdAndUpdate(s) ==
  LET r       == reqs[s]
      updated == UpdatedUser(r.prev, r.body)
  IN
  /\ r.op = "UpdateUser" /\ r.pc = "findByIdAndUpdate"
  /\ IF r.id \notin DOMAIN users
     THEN /\ users' = users
          /\ reqs' = [reqs EXCEPT ![s] = Finish(r, 404)]
     ELSE IF EmailTaken(users, updated.email, r.id)
     THEN /\ users' = users
          /\ reqs' = [reqs EXCEPT ![s] = Finish(r, 500)]
     ELSE /\ users' = [users EXCEPT ![r.id] = updated]
          /\ reqs' = [reqs EXCEPT ![s] =
                        IF "pendingTasks" \in r.body.fields
                        THEN [r EXCEPT !.updated = updated,
                                       !.pc = "unassignRemoved"]
                        ELSE Finish([r EXCEPT !.updated = updated], 200)]
  /\ UNCHANGED <<tasks, nUsers, nTasks>>

\* await Task.updateMany({_id: {$in: removed}, assignedUser: String(prev._id)}, ...)
UserUnassignRemoved(s) ==
  LET r == reqs[s] IN
  /\ r.op = "UpdateUser" /\ r.pc = "unassignRemoved"
  /\ tasks' = UnassignRemoved(tasks,
                RemovedIds(Range(r.prev.pendingTasks),
                           Range(r.body.pendingTasks)), r.id)
  /\ reqs' = [reqs EXCEPT ![s].pc = "assignAdded"]
  /\ UNCHANGED <<users, nUsers, nTasks>>

\* await Task.updateMany({_id: {$in: added}}, {$set: {assignedUser, assignedUserName: uname}})
UserAssignAdded(s) ==
  LET r == reqs[s] IN
  /\ r.op = "UpdateUser" /\ r.pc = "assignAdded"
  /\ tasks' = AssignAdded(tasks,
                AddedIds(Range(r.prev.pendingTasks),
                         Range(r.body.pendingTasks)), r.id, r.updated.name)
  /\ reqs' = [reqs EXCEPT ![s] = Finish(r, 200)]
  /\ UNCHANGED <<users, nUsers, nTasks>>

\* ---- DELETE /users/:id
BeginDeleteUser(s, ids) ==
  /\ reqs[s] = Idle
  /\ \E id \in ids :
       reqs' = [reqs EXCEPT ![s] =
                  [Request("DeleteUser", id, <<>>) EXCEPT !.pc = "findByIdAndDelete"]]
  /\ UNCHANGED <<users, tasks, nUsers, nTasks>>

\* const user = await User.findByIdAndDelete(req.params.id)
UserFindByIdAndDelete(s) ==
  LET r == reqs[s] IN
  /\ r.op = "DeleteUser" /\ r.pc = "findByIdAndDelete"
  /\ IF r.id \in DOMAIN users
     THEN /\ users' = Without(users, r.id)
          /\ reqs' = [reqs EXCEPT ![s] =
                        [r EXCEPT !.prev = users[r.id], !.pc = "unassignAll"]]
     ELSE /\ users' = users
          /\ reqs' = [reqs EXCEPT ![s] = Finish(r, 404)]
  /\ UNCHANGED <<tasks, nUsers, nTasks>>

\* await Task.updateMany({ assignedUser: String(req.params.id) }, ...)
UserUnassignAll(s) ==
  LET r == reqs[s] IN
  /\ r.op = "DeleteUser" /\ r.pc = "unassignAll"
  /\ tasks' = UnassignAllOf(tasks, r.id)
  /\ reqs' = [reqs EXCEPT ![s] = Finish(r, 200)]
  /\ UNCHANGED <<users, nUsers, nTasks>>

\* ---- POST /tasks
BeginCreateTask(s, bodies) ==
  /\ reqs[s] = Idle
  /\ nTasks + Cardinality({ x \in Slots : reqs[x] # Idle /\ reqs[x].op = "CreateTask"
                                           /\ reqs[x].id = "" }) < MaxTasks
  /\ \E body \in bodies :
       reqs' = [reqs EXCEPT ![s] =
                  [Request("CreateTask", "", body) EXCEPT !.pc = "resolveUserName"]]
  /\ UNCHANGED <<users, tasks, nUsers, nTasks>>

\* const assignedUserName = await resolveUserName(assignedUser)
NewTaskResolveName(s) ==
  LET r == reqs[s] IN
  /\ r.op = "CreateTask" /\ r.pc = "resolveUserName"
  /\ reqs' = [reqs EXCEPT ![s] =
                [r EXCEPT !.name = resolveUserName(users, r.body.assignedUser),
                          !.pc = "save"]]
  /\ UNCHANGED <<users, tasks, nUsers, nTasks>>

\* await task.save(); then the test of line 191
NewTaskSave(s) ==
  LET r     == reqs[s]
      newId == TaskIdOf(nTasks + 1)
      task  == NewTask(r.body, r.name)
      saved == [r EXCEPT !.id = newId, !.updated = task]
  IN
  /\ r.op = "CreateTask" /\ r.pc = "save"
  /\ tasks' = With(tasks, newId, task)
  /\ nTasks' = nTasks + 1
  /\ reqs' = [reqs EXCEPT ![s] =
                IF r.body.assignedUser # "" /\ ~r.body.completed
                THEN [saved EXCEPT !.pc = "addPending"]
                ELSE Finish(saved, 201)]
  /\ UNCHANGED <<users, nUsers>>

\* await addPendingToUser(assignedUser, String(task._id))
NewTaskAddPending(s) ==
  LET r == reqs[s] IN
  /\ r.op = "CreateTask" /\ r.pc = "addPending"
  /\ users' = addPendingToUser(users, r.body.assignedUser, r.id)
  /\ reqs' = [reqs EXCEPT ![s] = Finish(r, 201)]
  /\ UNCHANGED <<tasks, nUsers, nTasks>>

\* ---- DELETE /tasks/:id
BeginDeleteTask(s, ids) ==
  /\ reqs[s] = Idle
  /\ \E id \in ids :
       reqs' = [reqs EXCEPT ![s] =
                  [Request("DeleteTask", id, <<>>) EXCEPT !.pc = "findByIdAndDelete"]]
  /\ UNCHANGED <<users, tasks, nUsers, nTasks>>

\* mutant: the task read with findById and left in the collection
TaskFindByIdAndDelete_ReadsOnly(s) ==
  LET r == reqs[s] IN
  /\ r.op = "DeleteTask" /\ r.pc = "findByIdAndDelete"
  /\ tasks' = tasks
  /\ IF r.id \in DOMAIN tasks
     THEN reqs' = [reqs EXCEPT ![s] =
                     IF tasks[r.id].assignedUser # ""
                     THEN [r EXCEPT !.prev = tasks[r.id], !.pc = "pullDeleted"]
                     ELSE Finish([r EXCEPT !.prev = tasks[r.id]], 200)]
     ELSE reqs' = [reqs EXCEPT ![s] = Finish(r, 404)]
  /\ UNCHANGED <<users, nUsers, nTasks>>

\* const task = await Task.findByIdAndDelete(req.params.id); then the test
\* of line 256
TaskFindByIdAndDelete(s) ==
  LET r == reqs[s] IN
  /\ r.op = "DeleteTask" /\ r.pc = "findByIdAndDelete"
  /\ IF r.id \in DOMAIN tasks
     THEN /\ tasks' = Without(tasks, r.id)
          /\ reqs' = [reqs EXCEPT ![s] =
                        IF tasks[r.id].assignedUser # ""
                        THEN [r EXCEPT !.prev = tasks[r.id], !.pc = "pullDeleted"]
                        ELSE Finish([r EXCEPT !.prev = tasks[r.id]], 200)]
     ELSE /\ tasks' = tasks
          /\ reqs' = [reqs EXCEPT ![s] = Finish(r, 404)]
  /\ UNCHANGED <<users, nUsers, nTasks>>

\* await removePendingFromUser(task.assignedUser, String(task._id))
TaskPullDeleted(s) ==
  LET r == reqs[s] IN
  /\ r.op = "DeleteTask" /\ r.pc = "pullDeleted"
  /\ users' = removePendingFromUser(users, r.prev.assignedUser, r.id)
  /\ reqs' = [reqs EXCEPT ![s] = Finish(r, 200)]
  /\ UNCHANGED <<tasks, nUsers, nTasks>>

\* ---- the store operations of each handler
UpdateTaskSteps(s) ==
  \/ TaskFindById(s)
  \/ TaskResolveName(s)
  \/ TaskFindByIdAndUpdate(s)
  \/ TaskRemovePrev(s)
  \/ TaskAddNext(s)
  \/ TaskRemoveCompleted(s)
UpdateUserSteps(s) ==
  \/ UserFindById(s)
  \/ UserFindByIdAndUpdate(s)
  \/ UserUnassignRemoved(s)
  \/ UserAssignAdded(s)
DeleteUserSteps(s) ==
  \/ UserFindByIdAndDelete(s)
  \/ UserUnassignAll(s)
CreateTaskSteps(s) ==
  \/ NewTaskResolveName(s)
  \/ NewTaskSave(s)
  \/ NewTaskAddPending(s)
DeleteTaskSteps(s) ==
  \/ TaskFindByIdAndDelete(s)
  \/ TaskPullDeleted(s)

\* ---- the steps of whichever request stands at them
StepFindById ==
  \E s \in Slots : TaskFindById(s) \/ UserFindById(s)
StepResolveName ==
  \E s \in Slots : TaskResolveName(s)
StepFindByIdAndUpdate ==
  \E s \in Slots : TaskFindByIdAndUpdate(s) \/ UserFindByIdAndUpdate(s)
StepRemovePrev ==
  \E s \in Slots : TaskRemovePrev(s)
StepAddNext ==
  \E s \in Slots : TaskAddNext(s)
StepRemoveCompleted ==
  \E s \in Slots : TaskRemoveCompleted(s)
StepUnassignRemoved ==
  \E s \in Slots : UserUnassignRemoved(s)
StepAssignAdded ==
  \E s \in Slots : UserAssignAdded(s)

\* ---- set-up: users registered under their own name and address, tasks
\* created by any POST /tasks that passes validation
SetupUser ==
  CreateUserFrom({ [fields |-> {"name", "email"}, name |-> NameOf(nUsers + 1),
                    email |-> AddressOf(nUsers + 1), pendingTasks |-> <<>>] })
SetupTask == CreateTaskFrom(ValidTaskBodies)

\* ---- SpecReassign: one PUT /tasks/:id (slot 1) against one PUT /users/:id
\* that carries a pendingTasks list and keeps name and address (slot 2)
SameIdentityBodies(id) ==
  { b \in ListUserBodies :
      /\ id \in DOMAIN users
      /\ b.name = users[id].name
      /\ b.email \in { AddressOf(i) : i \in 1..nUsers }
      /\ NormalizeEmail(b.email) = users[id].email }
BeginTaskUpdate == BeginUpdateTask(1, ValidTaskBodies)
BeginUserUpdate ==
  \E id \in IssuedUserIds : BeginUpdateUser(2, id, SameIdentityBodies(id))

NextReassign ==
  \/ SetupUser
  \/ SetupTask
  \/ BeginTaskUpdate
  \/ BeginUserUpdate
  \/ StepFindById
  \/ StepResolveName
  \/ StepFindByIdAndUpdate
  \/ StepRemovePrev
  \/ StepAddNext
  \/ StepRemoveCompleted
  \/ StepUnassignRemoved
  \/ StepAssignAdded

SpecReassign == Init /\ [][NextReassign]_vars

\* ---- the reply has been sent: the handler invocation is over
Respond(s) ==
  /\ reqs[s] # Idle /\ reqs[s].pc = "done"
  /\ reqs' = [reqs EXCEPT ![s] = Idle]
  /\ UNCHANGED <<users, tasks, nUsers, nTasks>>

\* requests of kind op that are in flight or answered and not yet retired
InFlight(op) == { s \in Slots : reqs[s] # Idle /\ reqs[s].op = op }

\* ---- POST /users
\* bodies with name and e-mail, in every spelling of the address
NamedUserBodies == { b \in CreateUserBodies : {"name", "email"} \subseteq b.fields }

BeginCreateUser(s, bodies) ==
  /\ reqs[s] = Idle
  /\ nUsers + Cardinality(InFlight("CreateUser")) < MaxUsers
  /\ \E body \in bodies :
       reqs' = [reqs EXCEPT ![s] =
                  [Request("CreateUser", "", body) EXCEPT !.pc = "findOne"]]
  /\ UNCHANGED <<users, tasks, nUsers, nTasks>>

\* const dup = await User.findOne({ email: email.toLowerCase().trim() })
UserFindOne(s) ==
  LET r == reqs[s] IN
  /\ r.op = "CreateUser" /\ r.pc = "findOne"
  /\ reqs' = [reqs EXCEPT ![s] =
                IF EmailTaken(users, NormalizeEmail(r.body.email), "")
                THEN Finish(r, 400)
                ELSE [r EXCEPT !.pc = "save"]]
  /\ UNCHANGED <<users, tasks, nUsers, nTasks>>

\* await user.save(): the unique index refuses an address stored in the
\* meantime, the insert throws and the catch block replies 500
UserSave(s) ==
  LET r     == reqs[s]
      email == NormalizeEmail(r.body.email)
      newId == UserIdOf(nUsers + 1)
  IN
  /\ r.op = "CreateUser" /\ r.pc = "save"
  /\ IF EmailTaken(users, email, newId)
     THEN /\ reqs' = [reqs EXCEPT ![s] = Finish(r, 500)]
          /\ UNCHANGED <<users, nUsers>>
     ELSE /\ users' = With(users, newId, [name |-> r.body.name, email |-> email,
                                          pendingTasks |-> <<>>])
          /\ nUsers' = nUsers + 1
          /\ reqs' = [reqs EXCEPT ![s] = Finish([r EXCEPT !.id = newId], 201)]
  /\ UNCHANGED <<tasks, nTasks>>

\* ---- SpecEmail: POST /users and PUT /users/:id (without a pendingTasks
\* list) in both slots, one store operation at a time, with every address
BeginUserCreate == \E s \in Slots : BeginCreateUser(s, NamedUserBodies)
BeginAddressUpdate ==
  \E s \in Slots, id \in IssuedUserIds :
    BeginUpdateUser(s, id, { b \in NamedUserBodies : b.name = NameOf(1) })
StepFindOne == \E s \in Slots : UserFindOne(s)
StepSave    == \E s \in Slots : UserSave(s)
StepRespond == \E s \in Slots : Respond(s)
StepUserFindById          == \E s \in Slots : UserFindById(s)
StepUserFindByIdAndUpdate == \E s \in Slots : UserFindByIdAndUpdate(s)

NextEmail ==
  \/ BeginUserCreate
  \/ BeginAddressUpdate
  \/ StepFindOne
  \/ StepSave
  \/ StepUserFindById
  \/ StepUserFindByIdAndUpdate
  \/ StepRespond

SpecEmail == Init /\ [][NextEmail]_vars

\* ---- SpecOrder: the five synchronising requests, one at a time in slot 1,
\* each one store operation at a time, so that every state between two of
\* a request's store operations is a state the request can stop in
OrderCreateTask == BeginCreateTask(1, ValidTaskBodies)
OrderUpdateTask == BeginUpdateTask(1, ValidTaskBodies)
OrderDeleteTask == BeginDeleteTask(1, IssuedTaskIds)
OrderUpdateUser ==
  \E id \in IssuedUserIds : BeginUpdateUser(1, id, SameIdentityBodies(id))
OrderDeleteUser == BeginDeleteUser(1, IssuedUserIds)

NextOrder ==
  \/ SetupUser
  \/ OrderCreateTask
  \/ OrderUpdateTask
  \/ OrderDeleteTask
  \/ OrderUpdateUser
  \/ OrderDeleteUser
  \/ CreateTaskSteps(1)
  \/ UpdateTaskSteps(1)
  \/ DeleteTaskSteps(1)
  \/ UpdateUserSteps(1)
  \/ DeleteUserSteps(1)
  \/ Respond(1)

SpecOrder == Init /\ [][NextOrder]_vars

\* ---- SpecNoList: one task request (slot 1) against one PUT /users/:id
\* whose body carries no pendingTasks and keeps name and address (slot 2)
KeepBodies(id) ==
  { b \in NamedUserBodies :
      /\ id \in DOMAIN users
      /\ b.name = users[id].name
      /\ b.email \in { AddressOf(i) : i \in 1..nUsers }
      /\ NormalizeEmail(b.email) = users[id].email }
NoListCreateTask == BeginCreateTask(1, ValidTaskBodies)
NoListUpdateTask == BeginUpdateTask(1, ValidTaskBodies)
NoListDeleteTask == BeginDeleteTask(1, IssuedTaskIds)
NoListUpdateUser ==
  \E id \in IssuedUserIds : BeginUpdateUser(2, id, KeepBodies(id))

NextNoList ==
  \/ SetupUser
  \/ SetupTask
  \/ NoListCreateTask
  \/ NoListUpdateTask
  \/ NoListDeleteTask
  \/ NoListUpdateUser
  \/ CreateTaskSteps(1)
  \/ UpdateTaskSteps(1)
  \/ DeleteTaskSteps(1)
  \/ UserFindById(2)
  \/ UserFindByIdAndUpdate(2)

SpecNoList == Init /\ [][NextNoList]_vars

\* ---- SpecPair: two requests that address existing documents start
\* together in a state at rest and run one store operation at a time in any
\* interleaving.  Requests that create documents are left out: the store
\* draws their ids.  Each request carries along, as "base", the collections
\* as they were when the pair started; no handler reads it.
StartAt(r, pc) == [r EXCEPT !.pc = pc]
PairRequests ==
  { Request("UpdateTask", t, b) : t \in DOMAIN tasks, b \in ValidTaskBodies }
  \cup { StartAt(Request("DeleteTask", t, <<>>), "findByIdAndDelete") : t \in DOMAIN tasks }
  \cup UNION { { Request("UpdateUser", u, b) : b \in SameIdentityBodies(u) \cup KeepBodies(u) } :
               u \in DOMAIN users }
  \cup { StartAt(Request("DeleteUser", u, <<>>), "findByIdAndDelete") : u \in DOMAIN users }

BeginPair ==
  /\ Quiet
  /\ \E a \in PairRequests, b \in PairRequests :
       reqs' = [s \in Slots |->
                  (IF s = 1 THEN a ELSE b)
                    @@ [base |-> [users |-> users, tasks |-> tasks]]]
  /\ UNCHANGED <<users, tasks, nUsers, nTasks>>

NextPair ==
  \/ SetupUser
  \/ SetupTask
  \/ BeginPair
  \/ \E s \in Slots : UpdateTaskSteps(s)
  \/ \E s \in Slots : DeleteTaskSteps(s)
  \/ \E s \in Slots : UpdateUserSteps(s)
  \/ \E s \in Slots : DeleteUserSteps(s)

SpecPair == Init /\ [][NextPair]_vars

\* ---- SpecDeleteRace: one POST /tasks or PUT /tasks/:id (slot 1) against
\* one DELETE /users/:id (slot 2)
RaceCreateTask == BeginCreateTask(1, ValidTaskBodies)
RaceUpdateTask == BeginUpdateTask(1, ValidTaskBodies)
RaceDeleteUser == BeginDeleteUser(2, IssuedUserIds)

NextDeleteRace ==
  \/ SetupUser
  \/ SetupTask
  \/ RaceCreateTask
  \/ RaceUpdateTask
  \/ RaceDeleteUser
  \/ CreateTaskSteps(1)
  \/ UpdateTaskSteps(1)
  \/ DeleteUserSteps(2)

SpecDeleteRace == Init /\ [][NextDeleteRace]_vars

\* ================================================================ claims
\* ------------------------------------------------- the rules of the mirror
\* C1: at rest, every task that is assigned to an existing user and is not
\* completed appears exactly once in that user's pendingTasks.
C1_PendingExactlyOnce ==
  \A t \in DOMAIN tasks :
    LET u == tasks[t].assignedUser IN
    (u \in DOMAIN users /\ ~tasks[t].completed)
       => Count(users[u].pendingTasks, t) = 1

\* C2: at rest, a completed task is not in its assignee's pendingTasks.
C2_CompletedNotPending ==
  \A t \in DOMAIN tasks :
    LET u == tasks[t].assignedUser IN
    (u \in DOMAIN users /\ tasks[t].completed)
       => ~Contains(users[u].pendingTasks, t)

\* C3: at rest, an unassigned task is in no user's pendingTasks.
C3_UnassignedNowherePending ==
  \A t \in DOMAIN tasks :
    tasks[t].assignedUser = ""
       => \A u \in DOMAIN users : ~Contains(users[u].pendingTasks, t)

\* C4: at rest, every task's assignedUserName is the current name of the
\* user its assignedUser names, or "unassigned" when assignedUser is empty
\* or names no existing user.
C4_NameIsCurrent ==
  \A t \in DOMAIN tasks :
    tasks[t].assignedUserName = resolveUserName(users, tasks[t].assignedUser)

\* ------------------------------------------------------- single requests
\* The claims below speak of one request made in any state the system can
\* be left in: they are stated over every request body, applied to the
\* handler in the current state.
NextTaskId      == TaskIdOf(nTasks + 1)

\* C6 as stated: UpdateUser with a pendingTasks list assigns every added
\* task to the user, unassigns every removed task, and leaves all other
\* tasks as they were.
C6_RemovedAlwaysUnassigned ==
  \A id \in DOMAIN users, body \in ListUserBodies :
    LET r       == PutUser(users, tasks, id, body)
        prevSet == Range(users[id].pendingTasks)
        nextSet == Range(body.pendingTasks)
    IN r.status = 200 =>
       \A t \in DOMAIN tasks :
         /\ (t \in nextSet \ prevSet) => r.tasks[t].assignedUser = id
         /\ (t \in prevSet \ nextSet) => r.tasks[t].assignedUser = ""
         /\ (t \notin (nextSet \ prevSet) \cup (prevSet \ nextSet))
               => r.tasks[t] = tasks[t]

\* C6 amended: UpdateUser with a pendingTasks list assigns every added task
\* to the user (with the name just written), unassigns every removed task
\* that was still assigned to this user, and leaves all other tasks,
\* removed tasks assigned to someone else included, as they were.
C6_SymmetricDifference ==
  \A id \in DOMAIN users, body \in ListUserBodies :
    LET r       == PutUser(users, tasks, id, body)
        prevSet == Range(users[id].pendingTasks)
        nextSet == Range(body.pendingTasks)
    IN r.status = 200 =>
       /\ DOMAIN r.tasks = DOMAIN tasks
       /\ \A t \in DOMAIN tasks :
            IF t \in nextSet \ prevSet
            THEN r.tasks[t] = [tasks[t] EXCEPT !.assignedUser = id,
                                               !.assignedUserName = body.name]
            ELSE IF t \in prevSet \ nextSet /\ tasks[t].assignedUser = id
            THEN r.tasks[t] = [tasks[t] EXCEPT !.assignedUser = "",
                                               !.assignedUserName = "unassigned"]
            ELSE r.tasks[t] = tasks[t]

\* a state in which one UpdateUser adds one task, removes a task of the
\* user's own and drops a stale id of a task that is assigned elsewhere
C6_Witness ==
  \E id \in DOMAIN users, body \in ListUserBodies :
    LET prevSet == Range(users[id].pendingTasks)
        nextSet == Range(body.pendingTasks)
    IN /\ PutUser(users, tasks, id, body).status = 200
       /\ \E t \in DOMAIN tasks : t \in nextSet \ prevSet
       /\ \E t \in DOMAIN tasks :
            t \in prevSet \ nextSet /\ tasks[t].assignedUser = id

\* a state in which the list UpdateUser replaces names a task that has
\* since been assigned to another user
C6_StaleWitness ==
  \E id \in DOMAIN users, t \in DOMAIN tasks :
    /\ Contains(users[id].pendingTasks, t)
    /\ tasks[t].assignedUser \in DOMAIN users \ {id}

\* C7: a second UpdateUser with the same body leaves every task as the
\* first one left it.
C7_UpdateUserIdempotent ==
  \A id \in IssuedUserIds, body \in UserBodies :
    LET r1 == PutUser(users, tasks, id, body)
        r2 == PutUser(r1.users, r1.tasks, id, body)
    IN r2.tasks = r1.tasks

\* a state in which a first UpdateUser changes tasks on both sides of the
\* diff, so that a second one has something to undo or redo
C7_Witness ==
  \E id \in DOMAIN users, body \in ListUserBodies :
    LET r1 == PutUser(users, tasks, id, body) IN
    /\ r1.status = 200
    /\ \E t \in DOMAIN tasks :
         tasks[t].assignedUser # id /\ r1.tasks[t].assignedUser = id
    /\ \E t \in DOMAIN tasks :
         tasks[t].assignedUser = id /\ r1.tasks[t].assignedUser = ""

\* C8: CreateTask with name and deadline appends the new id to user u's
\* pendingTasks exactly when the body assigns the task to u and does not
\* complete it; then, if u exists, u's list holds the id once, the task
\* carries u's name and no other user changes; otherwise no user changes.
C8_CreateTaskAppends ==
  \A body \in ValidTaskBodies :
    LET r == PostTask(users, tasks, NextTaskId, body)
        u == body.assignedUser
    IN /\ r.status = 201
       /\ IF u \in DOMAIN users /\ ~body.completed
          THEN /\ r.users[u].pendingTasks
                    = Append(users[u].pendingTasks, NextTaskId)
               /\ Count(r.users[u].pendingTasks, NextTaskId) = 1
               /\ r.tasks[NextTaskId].assignedUserName = users[u].name
               /\ \A v \in DOMAIN users \ {u} : r.users[v] = users[v]
               /\ DOMAIN r.users = DOMAIN users
          ELSE r.users = users

\* the newest task was created assigned and not completed: it closes its
\* assignee's list, behind an older entry
C8_Witness ==
  /\ nTasks >= 1
  /\ TaskIdOf(nTasks) \in DOMAIN tasks
  /\ LET t == TaskIdOf(nTasks)
         u == tasks[t].assignedUser
     IN /\ u \in DOMAIN users
        /\ ~tasks[t].completed
        /\ Len(users[u].pendingTasks) >= 2
        /\ users[u].pendingTasks[Len(users[u].pendingTasks)] = t
        /\ Count(users[u].pendingTasks, t) = 1
        /\ tasks[t].assignedUserName = users[u].name

\* C9: after UpdateTask with completed = true and assignedUser = u, the
\* task is assigned to u and u's pendingTasks does not hold it.
C9_CompletionWins ==
  \A t \in DOMAIN tasks, body \in ValidTaskBodies :
    (/\ {"completed", "assignedUser"} \subseteq body.fields
     /\ body.completed
     /\ body.assignedUser # "")
    => LET r == PutTask(users, tasks, t, body)
           u == body.assignedUser
       IN /\ r.status = 200
          /\ r.tasks[t].assignedUser = u
          /\ r.tasks[t].completed
          /\ u \in DOMAIN r.users => ~Contains(r.users[u].pendingTasks, t)

\* a task pending with its assignee, which a completing UpdateTask that
\* names the same assignee takes out of the list
C9_Witness ==
  \E t \in DOMAIN tasks, u \in DOMAIN users :
    /\ tasks[t].assignedUser = u
    /\ ~tasks[t].completed
    /\ Contains(users[u].pendingTasks, t)
    /\ PutTask(users, tasks, t,
               [fields |-> TaskFields, assignedUser |-> u,
                completed |-> TRUE]).users # users

\* C10: after UpdateTask moves a task that is not completed from user u to
\* another existing user v, u's pendingTasks does not hold the task and
\* v's holds it exactly once.
C10_ReassignMovesPending ==
  \A t \in DOMAIN tasks, body \in ValidTaskBodies :
    LET u == tasks[t].assignedUser
        v == body.assignedUser
        r == PutTask(users, tasks, t, body)
    IN (/\ u # ""
        /\ "assignedUser" \in body.fields
        /\ v \in DOMAIN users
        /\ v # u
        /\ ~tasks[t].completed
        /\ ~body.completed)
       => /\ u \in DOMAIN r.users => ~Contains(r.users[u].pendingTasks, t)
          /\ Count(r.users[v].pendingTasks, t) = 1

\* C11: DeleteUser(u) on an existing user replies 200, removes u and no
\* other user, unassigns every task whose assignedUser was u, whether or
\* not u's pendingTasks named it and whether or not it is completed, and
\* leaves every other task as it was.
C11_DeleteUserUnassignsAll ==
  \A u \in DOMAIN users :
    LET r == DeleteUserDoc(users, tasks, u) IN
    /\ r.status = 200
    /\ u \notin DOMAIN r.users
    /\ \A v \in DOMAIN users \ {u} : v \in DOMAIN r.users /\ r.users[v] = users[v]
    /\ DOMAIN r.tasks = DOMAIN tasks
    /\ \A t \in DOMAIN tasks :
         IF tasks[t].assignedUser = u
         THEN r.tasks[t] = [tasks[t] EXCEPT !.assignedUser = "",
                                            !.assignedUserName = "unassigned"]
         ELSE r.tasks[t] = tasks[t]

\* a user with a completed task that its pendingTasks does not name, next
\* to a task of another user
C11_Witness ==
  \E u \in DOMAIN users, t \in DOMAIN tasks, t2 \in DOMAIN tasks :
    /\ tasks[t].assignedUser = u
    /\ tasks[t].completed
    /\ ~Contains(users[u].pendingTasks, t)
    /\ tasks[t2].assignedUser \in DOMAIN users \ {u}
    /\ DeleteUserDoc(users, tasks, u).tasks[t].assignedUser = ""

\* C12: after DeleteTask(t) no user's pendingTasks holds t, whoever the
\* task was assigned to.
C12_DeletedNowherePending ==
  \A t \in DOMAIN tasks :
    LET r == DeleteTaskDoc(users, tasks, t) IN
    /\ r.status = 200
    /\ \A u \in DOMAIN r.users : ~Contains(r.users[u].pendingTasks, t)

\* C13: UpdateTask writes a full replacement: a body without assignedUser
\* leaves the task unassigned and out of its former assignee's list, a
\* body without completed leaves it not completed, and the assignedUser
\* stored is the one whose name was resolved.
C13_FullReplacement ==
  \A t \in DOMAIN tasks, body \in ValidTaskBodies :
    LET r        == PutTask(users, tasks, t, body)
        prevUser == tasks[t].assignedUser
    IN /\ r.status = 200
       /\ "assignedUser" \notin body.fields =>
            /\ r.tasks[t].assignedUser = ""
            /\ r.tasks[t].assignedUserName = "unassigned"
            /\ prevUser \in DOMAIN r.users
                  => ~Contains(r.users[prevUser].pendingTasks, t)
       /\ "completed" \notin body.fields => ~r.tasks[t].completed
       /\ r.tasks[t].assignedUser = body.assignedUser

\* C14: CreateTask whose assignedUser names no existing user replies 201,
\* stores the id as given with assignedUserName "unassigned", and changes
\* no user.
C14_SoftReference ==
  \A body \in ValidTaskBodies :
    (body.assignedUser # "" /\ body.assignedUser \notin DOMAIN users)
    => LET r == PostTask(users, tasks, NextTaskId, body) IN
       /\ r.status = 201
       /\ NextTaskId \in DOMAIN r.tasks
       /\ r.tasks[NextTaskId].assignedUser = body.assignedUser
       /\ r.tasks[NextTaskId].assignedUserName = "unassigned"
       /\ r.tasks[NextTaskId].completed = body.completed
       /\ r.users = users

\* the newest task was created for a user that had been deleted, while
\* another user exists whose document could have been touched
C14_Witness ==
  /\ nTasks >= 1
  /\ TaskIdOf(nTasks) \in DOMAIN tasks
  /\ LET t == TaskIdOf(nTasks) IN
     /\ tasks[t].assignedUser \in IssuedUserIds \ DOMAIN users
     /\ tasks[t].assignedUserName = "unassigned"
     /\ ~tasks[t].completed
  /\ DOMAIN users # {}
  /\ \E body \in ValidTaskBodies :
       body.assignedUser \in IssuedUserIds \ DOMAIN users

\* C18: at rest, every task id is in the pendingTasks of one user at most,
\* and no pendingTasks holds an id twice.
C18_SingleAssigneeMirror ==
  /\ \A u \in DOMAIN users, v \in DOMAIN users :
       u # v => Range(users[u].pendingTasks) \cap Range(users[v].pendingTasks) = {}
  /\ \A u \in DOMAIN users :
       \A t \in Range(users[u].pendingTasks) : Count(users[u].pendingTasks, t) = 1

\* C18, first half alone: no two users list the same task id.
C18_AtMostOneUser ==
  \A u \in DOMAIN users, v \in DOMAIN users :
    u # v => Range(users[u].pendingTasks) \cap Range(users[v].pendingTasks) = {}

\* ------------------------------------------------ requests in flight
\* slot 1's UpdateTask has written task t, moving it from user u to user v
Reassigned(t, u, v) ==
  LET a == reqs[1] IN
  /\ a.op = "UpdateTask" /\ a.id = t
  /\ a.updated # <<>>
  /\ a.prev.assignedUser = u
  /\ "assignedUser" \in a.body.fields /\ a.body.assignedUser = v
  /\ v # u

\* slot 2 holds an UpdateUser on u whose pendingTasks list leaves t out
Drops(u, t) ==
  LET b == reqs[2] IN
  /\ b.op = "UpdateUser" /\ b.id = u
  /\ ~Contains(b.body.pendingTasks, t)

\* C5: once UpdateTask has moved task t from user u to user v, an
\* UpdateUser on u whose list leaves t out, wherever it stands and whenever
\* it read u's old list, never takes t away from v.
C5_GuardedUnassignment ==
  \A t \in DOMAIN tasks, u \in DOMAIN users, v \in DOMAIN users :
    (Reassigned(t, u, v) /\ Drops(u, t)) => tasks[t].assignedUser = v

\* both requests have replied 200, and the UpdateUser had read u's list
\* while it still named t, so that t was among the ids it removed
C5_Witness ==
  \E t \in DOMAIN tasks, u \in DOMAIN users, v \in DOMAIN users :
    /\ Reassigned(t, u, v) /\ Drops(u, t)
    /\ reqs[1].pc = "done" /\ reqs[1].status = 200
    /\ reqs[2].pc = "done" /\ reqs[2].status = 200
    /\ Contains(reqs[2].prev.pendingTasks, t)
    /\ tasks[t].assignedUser = v

\* ---------------------------------------------------- e-mail addresses
\* C15: a CreateUser that is not answered 201 is answered with the conflict
\* error (400), also when it ran next to another request, and no two
\* stored users share a normalized e-mail.
C15_DuplicateIsConflict ==
  /\ \A u \in DOMAIN users, v \in DOMAIN users :
       u # v => NormalizeEmail(users[u].email) # NormalizeEmail(users[v].email)
  /\ \A s \in Slots :
       LET r == reqs[s] IN
       (r # Idle /\ r.op = "CreateUser" /\ r.pc = "done" /\ r.status # 201)
          => r.status = 400

\* the part of C15 that the unique index does uphold: stored addresses are
\* normalized and pairwise different, and every issued id is a document
C15_UniqueEmails ==
  /\ \A u \in DOMAIN users : users[u].email = NormalizeEmail(users[u].email)
  /\ \A u \in DOMAIN users, v \in DOMAIN users :
       u # v => users[u].email # users[v].email
  /\ DOMAIN users = IssuedUserIds

\* two CreateUser requests with the same address in another spelling have
\* both been answered, one of them by the refusal of the save
C15_RaceWitness ==
  /\ reqs[1] # Idle /\ reqs[2] # Idle
  /\ reqs[1].op = "CreateUser" /\ reqs[2].op = "CreateUser"
  /\ reqs[1].pc = "done" /\ reqs[2].pc = "done"
  /\ reqs[1].body.email # reqs[2].body.email
  /\ {reqs[1].status, reqs[2].status} = {201, 500}

\* ------------------------------------------------------------ write order
\* the request has written (or deleted) the document it is about
OwnWritten(r) ==
  CASE r.op \in {"UpdateTask", "UpdateUser"} -> r.updated # <<>>
    [] r.op = "CreateTask" -> r.id \in DOMAIN tasks
    [] r.op = "DeleteTask" -> r.prev # <<>> /\ r.id \notin DOMAIN tasks
    [] r.op = "DeleteUser" -> r.prev # <<>> /\ r.id \notin DOMAIN users
    [] OTHER -> FALSE

TaskRequests == {"CreateTask", "UpdateTask", "DeleteTask"}
UserRequests == {"UpdateUser", "DeleteUser"}

\* C16: a step of a request in flight changes one collection at most, and
\* it changes the other collection (User documents for a task request,
\* Task documents for a user request) only after the request has written
\* or deleted its own document.
C16_OwnDocumentFirst ==
  [][ LET r == reqs[1] IN
      r # Idle =>
        /\ ~(users' # users /\ tasks' # tasks)
        /\ (r.op \in TaskRequests /\ users' # users) => OwnWritten(r)
        /\ (r.op \in UserRequests /\ tasks' # tasks) => OwnWritten(r) ]_vars

\* a DeleteTask between its two store operations: the task is deleted and
\* its assignee's pendingTasks still names it
C16_Witness ==
  LET r == reqs[1] IN
  /\ r # Idle /\ r.op = "DeleteTask" /\ r.pc = "pullDeleted"
  /\ r.id \notin DOMAIN tasks
  /\ r.prev.assignedUser \in DOMAIN users
  /\ Contains(users[r.prev.assignedUser].pendingTasks, r.id)

\* --------------------------------------------- UpdateUser without a list
\* both requests of SpecNoList have been answered with success
BothAnswered ==
  /\ reqs[1] # Idle /\ reqs[1].pc = "done" /\ reqs[1].status \in {200, 201}
  /\ reqs[2] # Idle /\ reqs[2].pc = "done" /\ reqs[2].status = 200

\* what the task request in slot 1 asks of user u's pendingTasks
AddsTo(a, u) ==
  \/ a.op = "CreateTask" /\ a.body.assignedUser = u /\ ~a.body.completed
  \/ a.op = "UpdateTask" /\ a.updated.assignedUser = u /\ ~a.updated.completed
RemovesFrom(a, u) ==
  \/ a.op = "DeleteTask" /\ a.prev.assignedUser = u
  \/ a.op = "UpdateTask" /\ a.prev.assignedUser = u /\ a.updated.assignedUser # u
  \/ a.op = "UpdateTask" /\ a.updated.assignedUser = u /\ a.updated.completed

\* C17: once an UpdateUser on u without a pendingTasks list and a
\* concurrent CreateTask / UpdateTask / DeleteTask have both been answered,
\* u's pendingTasks holds the id the task request added and does not hold
\* the id it removed.
C17_NoLostUpdate ==
  BothAnswered =>
    LET a == reqs[1]
        u == reqs[2].id
    IN /\ AddsTo(a, u) => Contains(users[u].pendingTasks, a.id)
       /\ RemovesFrom(a, u) => ~Contains(users[u].pendingTasks, a.id)

\* ------------------------------------------------------ disjoint requests
\* the documents a request reads or writes, in the collections it starts from
Footprint(r, us, ts) ==
  CASE r.op = "UpdateTask" ->
         [tasks |-> {r.id},
          users |-> ((IF r.id \in DOMAIN ts THEN {ts[r.id].assignedUser} ELSE {})
                       \cup {r.body.assignedUser}) \ {""}]
    [] r.op = "DeleteTask" ->
         [tasks |-> {r.id},
          users |-> (IF r.id \in DOMAIN ts THEN {ts[r.id].assignedUser} ELSE {})
                       \ {""}]
    [] r.op = "UpdateUser" ->
         [users |-> {r.id},
          tasks |-> IF r.id \in DOMAIN us /\ "pendingTasks" \in r.body.fields
                    THEN Range(us[r.id].pendingTasks) \cup Range(r.body.pendingTasks)
                    ELSE {}]
    [] r.op = "DeleteUser" ->
         [users |-> {r.id},
          tasks |-> { t \in DOMAIN ts : ts[t].assignedUser = r.id }]

DisjointRequests(a, b, us, ts) ==
  LET fa == Footprint(a, us, ts)
      fb == Footprint(b, us, ts)
  IN fa.users \cap fb.users = {} /\ fa.tasks \cap fb.tasks = {}

\* the handler of request r run to its reply on the collections us, ts
RunAlone(r, us, ts) ==
  CASE r.op = "UpdateTask" -> PutTask(us, ts, r.id, r.body)
    [] r.op = "DeleteTask" -> DeleteTaskDoc(us, ts, r.id)
    [] r.op = "UpdateUser" -> PutUser(us, ts, r.id, r.body)
    [] r.op = "DeleteUser" -> DeleteUserDoc(us, ts, r.id)

\* first a, then b, each run to its reply
OneAfterTheOther(a, b, us, ts) ==
  LET r1 == RunAlone(a, us, ts)
      r2 == RunAlone(b, r1.users, r1.tasks)
  IN [users |-> r2.users, tasks |-> r2.tasks]

PairAnswered ==
  \A s \in Slots : reqs[s] # Idle /\ reqs[s].pc = "done"

C20_NoNameOfDeletedUser ==
  (\A s \in Slots : reqs[s] # Idle /\ reqs[s].pc = "done") =>
    \A t \in DOMAIN tasks :
      (tasks[t].assignedUser # "" /\ tasks[t].assignedUser \notin DOMAIN users)
         => tasks[t].assignedUserName = "unassigned"

====
